---- MODULE Spec2Model ----
(***************************************************************************)
(* Model of tensorflow_probability/python/internal/hypothesis_testlib.py:  *)
(* the shape-broadcasting strategies, the named/mutex parameter assembler  *)
(* and the Support catalog.  A Hypothesis draw is a nondeterministic       *)
(* choice; a failed hp.assume ends the call in the state "discard"; a      *)
(* raised exception ends it in the state "error" with the exception's      *)
(* name.  Numeric tensor contents are not modelled, only shapes.           *)
(***************************************************************************)
EXTENDS Integers, Sequences, FiniteSets, TLC

VARIABLES
    entry,              \* the strategy under execution
    pc,                 \* position inside it
    error,              \* name of the raised exception, "none" if none
    ndraws,             \* number of draw(...) calls made so far
    target_shape,       \* broadcasting_shapes: argument
    n,                  \* broadcasting_shapes: argument
    no_error_n_eq_1,    \* broadcasting_shapes: argument
    result,             \* broadcasting_shapes: local list
    current_shape,      \* broadcasting_shapes: local
    support,            \* constrainer, min_rank_for_support, tensors_in_support: argument
    ret_transform,      \* the constraining transform returned or used, "none" if none
    ret_rank,           \* the rank returned by min_rank_for_support, -1 if none
    ret_shape,          \* tensors_in_support: the shape asked of constrained_tensors
    batch_shape,        \* broadcasting_params: argument
    params_event_ndims, \* broadcasting_params: argument, a dict name -> event ndims
    mutex_params,       \* broadcasting_params: argument, a collection of sets of names
    event_dim,          \* broadcasting_params: argument and local; the empty set is None
    event_dim_given,    \* whether the caller passed event_dim
    enable_vars,        \* broadcasting_params: argument
    dtype,              \* broadcasting_params: argument
    remaining_params,   \* broadcasting_params: local set
    params_to_use,      \* broadcasting_params: local list
    perm,               \* broadcasting_named_shapes: the permutation drawn
    param_batch_shapes, \* broadcasting_params: local dict name -> batch shape
    requested,          \* the shape passed to param_strategy_fn for each name
    params_kwargs,      \* broadcasting_params: local dict, returned at the end
    slices,             \* valid_slices: local list; stringify_slices: argument
    nslc_before_ellipsis, \* valid_slices: local
    nslc_after_ellipsis,  \* valid_slices: local
    has_ellipsis,       \* valid_slices: local
    single_item,        \* whether the expression is slices[0] and not the tuple
    pretty_slices,      \* stringify_slices: local list, returned at the end
    guard,              \* the scoped guard whose with-block is open, "none" if none
    exc_type,           \* the type of the exception raised inside the with-block
    exc_msg,            \* its message, as the set of the patterns the text matches
    VAR_USAGES,         \* the module's dict, as key -> len(usages)
    scopes,             \* the open assert_no_excessive_var_usage blocks, innermost last
    exited              \* the assert_no_excessive_var_usage block that ended last

shapeVars == <<target_shape, n, no_error_n_eq_1, result, current_shape>>
supportVars == <<support, ret_transform, ret_rank, ret_shape>>
paramsArgs == <<batch_shape, params_event_ndims, mutex_params, event_dim_given,
                enable_vars, dtype>>
paramsVars == <<paramsArgs, event_dim, remaining_params, params_to_use, perm,
                param_batch_shapes, requested, params_kwargs>>
slicesVars == <<slices, nslc_before_ellipsis, nslc_after_ellipsis, has_ellipsis,
                single_item, pretty_slices>>
guardVars == <<guard, exc_type, exc_msg>>
usageVars == <<VAR_USAGES, scopes, exited>>
toolVars == <<slicesVars, guardVars, usageVars>>
vars == <<entry, pc, error, ndraws, shapeVars, supportVars, paramsVars, toolVars>>

----------------------------------------------------------------------------
(* Bounds of the model *)

\* largest rank of a target shape of broadcasting_shapes
MaxRank == 2
\* the axis sizes of the shapes drawn as inputs: the code only compares a size
\* with 1 and with the size aligned to it, so an empty axis, a broadcasting
\* axis and one proper size cover its cases
DimValues == {0, 1, 2}
\* largest number of shapes asked of broadcasting_shapes
MaxN == 3

----------------------------------------------------------------------------
(* Shapes: tf.TensorShape of fully defined dimensions, as a tuple of naturals *)

Max(a, b) == IF a >= b THEN a ELSE b

ShapesOfRank(r) == [1..r -> DimValues]

ShapesUpTo(maxr) == UNION {ShapesOfRank(r) : r \in 0..maxr}

\* target_shape[target_rank - next_rank:], the last k dimensions of s
LastDims(s, k) == [i \in 1..k |-> s[Len(s) - k + i]]

\* the dimension of s aligned with axis i of a rank-r shape; 1 when s has no
\* such axis (zip_longest(..., fillvalue=Dimension(1)) of TensorFlow)
AlignedDim(s, r, i) == IF i <= r - Len(s) THEN 1 ELSE s[i - (r - Len(s))]

\* one aligned pair of dimensions; -1 stands for "not broadcastable"
BroadcastDim(x, y) ==
    IF x = 1 THEN y
    ELSE IF y = 1 THEN x
    ELSE IF x = y THEN x
    ELSE -1

\* what broadcast_static_shape gives where TensorFlow raises ValueError
Incompatible == <<-1>>

\* tf.broadcast_static_shape(x, y)
broadcast_static_shape(x, y) ==
    LET r == Max(Len(x), Len(y))
        dims == [i \in 1..r |-> BroadcastDim(AlignedDim(x, r, i), AlignedDim(y, r, i))]
    IN  IF \E i \in 1..r : dims[i] = -1 THEN Incompatible ELSE dims

----------------------------------------------------------------------------
(* _compute_rank_and_fullsize_reqd *)

\* axis_is_mismatched of the last shape: the axes in which the broadcast of the
\* shapes chosen so far does not yet equal the target
AxisIsMismatched(target, current) ==
    LET ones == [i \in 1..Len(target) |-> 1]
        full_rank_current == broadcast_static_shape(current, ones)
    IN  [i \in 1..Len(target) |-> full_rank_current[i] # target[i]]

\* (axis_is_mismatched + [True]).index(True), a 0-based index
FirstTrueIndex(bools) ==
    LET ext == Append(bools, TRUE)
    IN  (CHOOSE i \in 1..Len(ext) : ext[i] /\ \A j \in 1..(i - 1) : ~ext[j]) - 1

\* faulty variant of MinRank: the last shape may take any rank
MinRankZero(target, current) == 0

\* faulty variant of MinRank: the last shape always has the rank of the target
MinRankFull(target, current) == Len(target)

\* min_rank of the last shape
MinRank(target, current) ==
    IF Len(current) = Len(target)
    THEN Len(target) - FirstTrueIndex(AxisIsMismatched(target, current))
    ELSE Len(target)

\* the set of (next_rank, force_fullsize_dim) the function can return: one
\* draw of an integer decides which
compute_rank_and_fullsize_reqd(target, current, is_last) ==
    IF is_last
    THEN {<<r, LastDims(AxisIsMismatched(target, current), r)>> :
              r \in MinRank(target, current)..Len(target)}
    ELSE {<<r, [i \in 1..r |-> FALSE]>> : r \in 0..Len(target)}

----------------------------------------------------------------------------
(* broadcasting_shapes *)

\* [False] * (n - 1) + [True]: Python gives the empty list for a count <= 0
IsLastList(k) ==
    [i \in 1..(Max(k - 1, 0) + 1) |-> i = Max(k - 1, 0) + 1]

\* faulty variant of NextShape: a broadcasting axis is put in front
NextShapeExtraAxis(target, rank, force, ones) ==
    <<1>> \o [i \in 1..rank |->
        IF ~force[i] /\ ones[i] THEN 1 ELSE LastDims(target, rank)[i]]

\* the next_shape of one iteration, given the rank, the forced axes and the
\* booleans drawn for the axes that are not forced
NextShape(target, rank, force, ones) ==
    [i \in 1..rank |->
        IF ~force[i] /\ ones[i] THEN 1 ELSE LastDims(target, rank)[i]]

\* number of draws of one iteration: the rank, and a boolean per free axis
DrawsOfIteration(rank, force) ==
    1 + Cardinality({i \in 1..rank : ~force[i]})

\* faulty variant of RejectsNEq1: the flag is ignored
RejectsNEq1NoFlag(k, flag) == k = 1

\* if n == 1 and not no_error_n_eq_1: raise ValueError(...)
RejectsNEq1(k, flag) == k = 1 /\ ~flag

\* entry of the body, up to the loop
BroadcastingShapesEnter ==
    /\ pc = "shapes_enter"
    /\ IF RejectsNEq1(n, no_error_n_eq_1)
       THEN /\ pc' = "error"
            /\ error' = "ValueError"
            /\ UNCHANGED <<result, current_shape>>
       ELSE /\ pc' = "shapes_loop"
            /\ result' = <<>>
            /\ current_shape' = <<>>
            /\ UNCHANGED error
    /\ UNCHANGED <<entry, ndraws, target_shape, n, no_error_n_eq_1, supportVars, paramsVars,
                   toolVars>>

\* one iteration of "for is_last in [False] * (n - 1) + [True]"
BroadcastingShapesIterate ==
    /\ pc = "shapes_loop"
    /\ Len(result) < Len(IsLastList(n))
    /\ LET is_last == IsLastList(n)[Len(result) + 1]
       IN  \E rf \in compute_rank_and_fullsize_reqd(target_shape, current_shape, is_last) :
           \E ones \in [1..rf[1] -> BOOLEAN] :
               LET next_shape == NextShape(target_shape, rf[1], rf[2], ones)
                   bc == broadcast_static_shape(current_shape, next_shape)
               IN  IF bc = Incompatible
                   THEN /\ pc' = "error"
                        /\ error' = "ValueError"
                        /\ UNCHANGED <<result, current_shape, ndraws>>
                   ELSE /\ current_shape' = bc
                        /\ result' = Append(result, next_shape)
                        /\ ndraws' = ndraws + DrawsOfIteration(rf[1], rf[2])
                        /\ pc' = IF Len(result) + 1 = Len(IsLastList(n))
                                 THEN "shapes_return" ELSE "shapes_loop"
                        /\ UNCHANGED error
    /\ UNCHANGED <<entry, target_shape, n, no_error_n_eq_1, supportVars, paramsVars,
                   toolVars>>

\* a dict without keys
EmptyDict == <<>>

\* no call of valid_slices or stringify_slices is in progress
SlicesIdle ==
    /\ slices = <<>>
    /\ nslc_before_ellipsis = 0
    /\ nslc_after_ellipsis = 0
    /\ has_ellipsis = FALSE
    /\ single_item = FALSE
    /\ pretty_slices = <<>>

\* no with-block of a scoped guard is open
GuardIdle ==
    /\ guard = "none"
    /\ exc_type = "none"
    /\ exc_msg = {}

\* VAR_USAGES = {} and no assert_no_excessive_var_usage block is open
UsageIdle ==
    /\ VAR_USAGES = EmptyDict
    /\ scopes = <<>>
    /\ exited = <<>>

\* none of the slicing, guard and usage-counting utilities is in use
ToolsIdle ==
    /\ SlicesIdle
    /\ GuardIdle
    /\ UsageIdle

\* no call of broadcasting_params is in progress
ParamsIdle ==
    /\ batch_shape = <<>>
    /\ params_event_ndims = EmptyDict
    /\ mutex_params = {}
    /\ event_dim = {}
    /\ event_dim_given = FALSE
    /\ enable_vars = FALSE
    /\ dtype = "float32"
    /\ remaining_params = {}
    /\ params_to_use = <<>>
    /\ perm = <<>>
    /\ param_batch_shapes = EmptyDict
    /\ requested = EmptyDict
    /\ params_kwargs = EmptyDict

\* no Support lookup is in progress
SupportIdle ==
    /\ support = <<>>
    /\ ret_transform = "none"
    /\ ret_rank = -1
    /\ ret_shape = <<>>

\* a call broadcasting_shapes(target_shape, n, no_error_n_eq_1) about to be drawn
InitShapes ==
    /\ entry = "broadcasting_shapes"
    /\ pc = "shapes_enter"
    /\ error = "none"
    /\ ndraws = 0
    /\ target_shape \in ShapesUpTo(MaxRank)
    /\ n \in 0..MaxN
    /\ no_error_n_eq_1 \in BOOLEAN
    /\ result = <<>>
    /\ current_shape = <<>>
    /\ SupportIdle
    /\ ParamsIdle
    /\ ToolsIdle

NextShapes ==
    \/ BroadcastingShapesEnter
    \/ BroadcastingShapesIterate

SpecShapes == InitShapes /\ [][NextShapes]_vars

\* the same calls, followed iteration by iteration for the claims about what
\* one iteration of the loop can draw
SpecShapeSequences == InitShapes /\ [][NextShapes]_vars

----------------------------------------------------------------------------
(* The Support catalog.  A Python string is modelled by its fields between   *)
(* underscores: 'SCALAR_IN_0_1' is <<"SCALAR", "IN", "0", "1">>, 'OTHER' is  *)
(* <<"OTHER">>, 'SCALAR_' is <<"SCALAR", "">> and '__doc__' is               *)
(* <<"", "", "doc", "", "">>.                                               *)

\* s.startswith(family + '_'), for a family name without underscore
StartsWithFamily(s, family) == Len(s) >= 2 /\ s[1] = family

\* attr.startswith('__')
StartsWithDunder(s) == Len(s) >= 3 /\ s[1] = "" /\ s[2] = ""

SCALAR_UNCONSTRAINED == <<"SCALAR", "UNCONSTRAINED">>
SCALAR_NON_NEGATIVE == <<"SCALAR", "NON", "NEGATIVE">>
SCALAR_NON_ZERO == <<"SCALAR", "NON", "ZERO">>
SCALAR_POSITIVE == <<"SCALAR", "POSITIVE">>
SCALAR_GT_NEG1 == <<"SCALAR", "GT", "NEG1">>
SCALAR_IN_NEG1_1 == <<"SCALAR", "IN", "NEG1", "1">>
SCALAR_IN_0_1 == <<"SCALAR", "IN", "0", "1">>
VECTOR_UNCONSTRAINED == <<"VECTOR", "UNCONSTRAINED">>
VECTOR_SIZE_TRIANGULAR == <<"VECTOR", "SIZE", "TRIANGULAR">>
VECTOR_POSITIVE_WITH_L1_NORM_1_SIZE_GT1 ==
    <<"VECTOR", "POSITIVE", "WITH", "L1", "NORM", "1", "SIZE", "GT1">>
VECTOR_STRICTLY_INCREASING == <<"VECTOR", "STRICTLY", "INCREASING">>
MATRIX_UNCONSTRAINED == <<"MATRIX", "UNCONSTRAINED">>
MATRIX_LOWER_TRIL == <<"MATRIX", "LOWER", "TRIL">>
MATRIX_LOWER_TRIL_POSITIVE_DEFINITE ==
    <<"MATRIX", "LOWER", "TRIL", "POSITIVE", "DEFINITE">>
MATRIX_POSITIVE_DEFINITE == <<"MATRIX", "POSITIVE", "DEFINITE">>
CORRELATION_CHOLESKY == <<"CORRELATION", "CHOLESKY">>
OTHER_SUPPORT == <<"OTHER">>

\* dir(Support): the attributes of the class, with callable(getattr(cls, attr));
\* of the attributes every class inherits, those of each kind that the filter
\* of all_supports tells apart
SupportDir ==
    {[name |-> t, callable |-> FALSE] : t \in
        {SCALAR_UNCONSTRAINED, SCALAR_NON_NEGATIVE, SCALAR_NON_ZERO,
         SCALAR_POSITIVE, SCALAR_GT_NEG1, SCALAR_IN_NEG1_1, SCALAR_IN_0_1,
         VECTOR_UNCONSTRAINED, VECTOR_SIZE_TRIANGULAR,
         VECTOR_POSITIVE_WITH_L1_NORM_1_SIZE_GT1, VECTOR_STRICTLY_INCREASING,
         MATRIX_UNCONSTRAINED, MATRIX_LOWER_TRIL,
         MATRIX_LOWER_TRIL_POSITIVE_DEFINITE, MATRIX_POSITIVE_DEFINITE,
         CORRELATION_CHOLESKY, OTHER_SUPPORT}}
    \cup {[name |-> <<"", "", "doc", "", "">>, callable |-> FALSE],
          [name |-> <<"", "", "module", "", "">>, callable |-> FALSE],
          [name |-> <<"", "", "dict", "", "">>, callable |-> FALSE],
          [name |-> <<"", "", "init", "", "">>, callable |-> TRUE],
          [name |-> <<"", "", "eq", "", "">>, callable |-> TRUE]}

\* ALL_SUPPORTS, as all_supports() leaves it
ALL_SUPPORTS ==
    {a.name : a \in {x \in SupportDir : ~x.callable /\ ~StartsWithDunder(x.name)}}

\* faulty variant of ScalarConstrainers: the entry of SCALAR_GT_NEG1 is missing
ScalarConstrainersNoGtNeg1 ==
    (SCALAR_IN_0_1 :> "tf.math.sigmoid")
    @@ (SCALAR_NON_ZERO :> "nonzero")
    @@ (SCALAR_IN_NEG1_1 :> "tanh_times_1_minus_eps")
    @@ (SCALAR_NON_NEGATIVE :> "tf.math.softplus")
    @@ (SCALAR_POSITIVE :> "softplus_plus_eps()")
    @@ (SCALAR_UNCONSTRAINED :> "tf.identity")

\* the constrainers dictionary of _scalar_constrainer
ScalarConstrainers ==
    (SCALAR_IN_0_1 :> "tf.math.sigmoid")
    @@ (SCALAR_GT_NEG1 :> "softplus_plus_eps(-1 + 1e-6)")
    @@ (SCALAR_NON_ZERO :> "nonzero")
    @@ (SCALAR_IN_NEG1_1 :> "tanh_times_1_minus_eps")
    @@ (SCALAR_NON_NEGATIVE :> "tf.math.softplus")
    @@ (SCALAR_POSITIVE :> "softplus_plus_eps()")
    @@ (SCALAR_UNCONSTRAINED :> "tf.identity")

\* the constrainers dictionary of _vector_constrainer
VectorConstrainers ==
    (VECTOR_UNCONSTRAINED :> "identity_fn")
    @@ (VECTOR_STRICTLY_INCREASING :> "cumsum_abs_plus_eps")
    @@ (VECTOR_POSITIVE_WITH_L1_NORM_1_SIZE_GT1 :> "l1norm")
    @@ (VECTOR_SIZE_TRIANGULAR :> "identity_fn")

\* the constrainers dictionary of _matrix_constrainer
MatrixConstrainers ==
    (MATRIX_UNCONSTRAINED :> "identity_fn")
    @@ (MATRIX_POSITIVE_DEFINITE :> "positive_definite")
    @@ (MATRIX_LOWER_TRIL_POSITIVE_DEFINITE :> "lower_tril_positive_definite")
    @@ (MATRIX_LOWER_TRIL :> "lower_tril")

\* what a lookup gives where the code raises NotImplementedError(support)
RaisesNotImplemented == "NotImplementedError"
RankNotImplemented == -1

\* if support not in constrainers: raise ...; return constrainers[support]
LookUp(constrainers, s) ==
    IF s \in DOMAIN constrainers THEN constrainers[s] ELSE RaisesNotImplemented

scalar_constrainer(s) == LookUp(ScalarConstrainers, s)

vector_constrainer(s) == LookUp(VectorConstrainers, s)

matrix_constrainer(s) == LookUp(MatrixConstrainers, s)

constrainer(s) ==
    IF StartsWithFamily(s, "SCALAR") THEN scalar_constrainer(s)
    ELSE IF StartsWithFamily(s, "VECTOR") THEN vector_constrainer(s)
    ELSE IF StartsWithFamily(s, "MATRIX") THEN matrix_constrainer(s)
    ELSE RaisesNotImplemented

\* faulty variant of min_rank_for_support: the VECTOR_ family reports rank 2
min_rank_for_support_vector_2(s) ==
    IF StartsWithFamily(s, "SCALAR") THEN 0
    ELSE IF StartsWithFamily(s, "VECTOR") THEN 2
    ELSE IF StartsWithFamily(s, "MATRIX") THEN 2
    ELSE RankNotImplemented

\* min_rank_for_support(support)
min_rank_for_support(s) ==
    IF StartsWithFamily(s, "SCALAR") THEN 0
    ELSE IF StartsWithFamily(s, "VECTOR") THEN 1
    ELSE IF StartsWithFamily(s, "MATRIX") THEN 2
    ELSE RankNotImplemented

\* largest side of a shape drawn by shapes()
MaxSide == 2
\* max_ndims of shapes()
ShapesMaxNdims == 3
\* draw(hps.integers(min_value=2, max_value=6)) of event_dim
EventDimMin == 2
EventDimMax == 6

\* the values of draw(shapes()) with the default arguments: a rank in
\* 0..max_ndims and sides of at least 1 (resize_lastdim changes nothing for
\* min_lastdimsize = 1)
shapes == UNION {[1..r -> 1..MaxSide] : r \in 0..ShapesMaxNdims}

\* [event_dim] * k: Python gives the empty list for k <= 0
Repeat(x, k) == [i \in 1..Max(k, 0) |-> x]

\* the strings the lookups are applied to: the catalog, and strings outside it
SupportInputs ==
    ALL_SUPPORTS \cup
    {<<"SCALAR", "BOGUS">>, <<"VECTOR", "BOGUS">>, <<"MATRIX", "BOGUS">>,
     <<"SCALAR", "">>, <<"SCALAR">>, <<"BOGUS">>, <<"scalar", "POSITIVE">>,
     <<"", "SCALAR", "POSITIVE">>}

\* a test calls constrainer(s)
Constrainer ==
    /\ pc = "idle"
    /\ \E s \in SupportInputs :
        /\ entry' = "constrainer"
        /\ support' = s
        /\ IF constrainer(s) = RaisesNotImplemented
           THEN /\ pc' = "error"
                /\ error' = "NotImplementedError"
                /\ ret_transform' = "none"
           ELSE /\ pc' = "return"
                /\ error' = "none"
                /\ ret_transform' = constrainer(s)
    /\ UNCHANGED <<ndraws, shapeVars, ret_rank, ret_shape, paramsVars, toolVars>>

\* a test calls min_rank_for_support(s)
MinRankForSupport ==
    /\ pc = "idle"
    /\ \E s \in SupportInputs :
        /\ entry' = "min_rank_for_support"
        /\ support' = s
        /\ IF min_rank_for_support(s) = RankNotImplemented
           THEN /\ pc' = "error"
                /\ error' = "NotImplementedError"
                /\ ret_rank' = -1
           ELSE /\ pc' = "return"
                /\ error' = "none"
                /\ ret_rank' = min_rank_for_support(s)
    /\ UNCHANGED <<ndraws, shapeVars, ret_transform, ret_shape, paramsVars, toolVars>>

\* tensors_in_support(support, batch_shape, event_dim), up to the request made
\* of constrained_tensors; an optional argument is the set of its value, empty
\* for None, and an argument that is None is drawn
TensorsInSupport ==
    /\ pc = "idle"
    /\ \E s \in SupportInputs, tis_event_dim_arg \in {{}, {3}},
          tis_batch_shape_arg \in {{}, {<<>>}, {<<2>>}, {<<1, 2>>}} :
       \E tis_event_dim \in IF tis_event_dim_arg = {}
                         THEN EventDimMin..EventDimMax ELSE tis_event_dim_arg,
          tis_batch_shape \in IF tis_batch_shape_arg = {}
                           THEN shapes ELSE tis_batch_shape_arg :
        /\ entry' = "tensors_in_support"
        /\ support' = s
        /\ ndraws' = (IF tis_event_dim_arg = {} THEN 1 ELSE 0)
                     + (IF tis_batch_shape_arg = {} THEN 1 ELSE 0)
        /\ IF min_rank_for_support(s) = RankNotImplemented
              \/ constrainer(s) = RaisesNotImplemented
           THEN /\ pc' = "error"
                /\ error' = "NotImplementedError"
                /\ UNCHANGED <<ret_transform, ret_rank, ret_shape>>
           ELSE /\ pc' = "return"
                /\ error' = "none"
                /\ ret_rank' = min_rank_for_support(s)
                /\ ret_shape' = tis_batch_shape \o Repeat(tis_event_dim, min_rank_for_support(s))
                /\ ret_transform' = constrainer(s)
    /\ UNCHANGED <<shapeVars, paramsVars, toolVars>>

\* no call of broadcasting_shapes is in progress
ShapesIdle ==
    /\ target_shape = <<>>
    /\ n = 0
    /\ no_error_n_eq_1 = FALSE
    /\ result = <<>>
    /\ current_shape = <<>>

\* the module is loaded (ALL_SUPPORTS is built) and nothing has been called
InitSupport ==
    /\ entry = "none"
    /\ pc = "idle"
    /\ error = "none"
    /\ ndraws = 0
    /\ ShapesIdle
    /\ SupportIdle
    /\ ParamsIdle
    /\ ToolsIdle

NextSupport ==
    \/ Constrainer
    \/ MinRankForSupport
    \/ TensorsInSupport

SpecSupport == InitSupport /\ [][NextSupport]_vars

----------------------------------------------------------------------------
(* broadcasting_params, broadcasting_named_shapes, maybe_variable *)

\* largest rank of the batch_shape given to broadcasting_params
MaxBatchRank == 1
\* hp.assume(len(param_shape) < 6)
RankLimit == 6

\* the batch shapes of the calls explored: a broadcasting axis and a proper one
BatchShapeInputs ==
    UNION {[1..r -> {1, 2}] : r \in 0..MaxBatchRank}

\* the parameter names of the calls explored, and a name no call asks for
Names == {"a", "b", "c"}
ForeignName == "z"

\* the event ndims of each name in the calls explored: none, one, and enough
\* to reach the rank limit with one batch axis
MasterEventNdims == ("a" :> 0) @@ ("b" :> 1) @@ ("c" :> 5)

\* the params_event_ndims of the calls explored: the dicts over every subset
\* of the names, the empty dict among them
ParamsEventNdimsInputs ==
    {[name \in S |-> MasterEventNdims[name]] : S \in SUBSET Names}

\* the mutex_params of the calls explored: none, disjoint from the names,
\* one group, overlapping groups, a group with a name that is no parameter
MutexInputs ==
    {{}, {{"a", "b"}}, {{"a", "b"}, {"b", "c"}}, {{"a", "b", "c"}},
     {{"a", ForeignName}, {"b", "c"}}}

\* dtypes: floating, boolean, and one constrained_tensors does not support
Dtypes == {"float32", "bool", "int32"}

\* dict(zip(keys, values)): zip stops at the shorter of the two
Min(a, b) == IF a <= b THEN a ELSE b

ZipDict(keys, values) ==
    LET len == Min(Len(keys), Len(values))
    IN  [k \in {keys[i] : i \in 1..len} |->
            values[CHOOSE i \in 1..len : keys[i] = k /\ \A j \in (i + 1)..len : keys[j] # k]]

\* the values of draw(hps.permutations(xs)) for a list xs without repetition
PermutationsOf(xs) ==
    {q \in [1..Len(xs) -> {xs[i] : i \in 1..Len(xs)}] :
        \A i, j \in 1..Len(xs) : i # j => q[i] # q[j]}

\* faulty variant of NamedShapesCount: one shape too many is asked for
NamedShapesCountPlusOne(param_names) == Len(param_names) + 1

\* n = len(param_names)
NamedShapesCount(param_names) == Len(param_names)

\* faulty variant of RemoveClashing: the clashing groups stay
RemoveClashingKeepGroup(remaining, param, mutex) == remaining \ {param}

\* faulty variant of RemoveClashing: every group goes, clashing or not
RemoveClashingEveryGroup(remaining, param, mutex) ==
    (remaining \ {param}) \ UNION mutex

\* for mutex_set in mutex_params: if param in mutex_set: remaining_params -= mutex_set
RemoveClashing(remaining, param, mutex) ==
    (remaining \ {param}) \ UNION {mutex_set \in mutex : param \in mutex_set}

\* faulty variant of ParamShape: the event axes are left out
ParamShapeBatchOnly(param_batch_shape, dim, param_event_rank) == param_batch_shape

\* param_shape of one parameter
ParamShape(param_batch_shape, dim, param_event_rank) ==
    param_batch_shape \o Repeat(dim, param_event_rank)

\* faulty variant of WithinRankLimit: rank 6 passes
WithinRankLimitInclusive(param_shape) == Len(param_shape) <= RankLimit

\* hp.assume(len(param_shape) < 6)
WithinRankLimit(param_shape) == Len(param_shape) < RankLimit

\* constrained_tensors raises NotImplementedError(dtype) for a dtype that is
\* neither floating nor boolean
DtypeSupported(d) == d \in {"float32", "bool"}

\* the outcomes of one draw(strategy) of constrained_tensors: a value, or the
\* AssertionError of mapper when constraint_fn gives a non-finite value of a
\* floating dtype (constraint_fn is the caller's: either can happen)
ValueDrawOutcomes(d) == IF d = "float32" THEN {"value", "AssertionError"} ELSE {"value"}

\* faulty variant of maybe_variable: enable_vars is not looked at
maybe_variable_ignores_flag(vars_enabled, d) ==
    {[raised |-> "AssertionError", kind |-> "none", alt_value |-> FALSE,
      value_draws |-> 1, draws |-> 1] : o \in ValueDrawOutcomes(d) \ {"value"}}
    \cup {[raised |-> "none", kind |-> "tensor", alt_value |-> FALSE,
           value_draws |-> 1, draws |-> 2]}
    \cup {[raised |-> "AssertionError", kind |-> "none", alt_value |-> FALSE,
           value_draws |-> 2, draws |-> 3] : o \in ValueDrawOutcomes(d) \ {"value"}}
    \cup {[raised |-> "none", kind |-> k, alt_value |-> TRUE,
           value_draws |-> 2, draws |-> 4] : k \in {"variable", "deferred"}}

\* the outcomes of draw(maybe_variable(strategy, enable_vars)): what is
\* returned or raised, whether it carries _tfp_alt_value, how often the value
\* strategy was drawn from, and the draws made in all
maybe_variable(vars_enabled, d) ==
    {[raised |-> "AssertionError", kind |-> "none", alt_value |-> FALSE,
      value_draws |-> 1, draws |-> 1] : o \in ValueDrawOutcomes(d) \ {"value"}}
    \cup
    (IF ~vars_enabled
     THEN {[raised |-> "none", kind |-> "tensor", alt_value |-> FALSE,
            value_draws |-> 1, draws |-> 1]}
     ELSE {[raised |-> "none", kind |-> "tensor", alt_value |-> FALSE,
            value_draws |-> 1, draws |-> 2]}
          \cup {[raised |-> "AssertionError", kind |-> "none", alt_value |-> FALSE,
                 value_draws |-> 2, draws |-> 3] : o \in ValueDrawOutcomes(d) \ {"value"}}
          \cup {[raised |-> "none", kind |-> k, alt_value |-> TRUE,
                 value_draws |-> 2, draws |-> 4] : k \in {"variable", "deferred"}})

\* entry of broadcasting_params, up to the selection loop
ParamsEnter ==
    /\ pc = "params_enter"
    /\ \E dim \in (IF event_dim = {} THEN EventDimMin..EventDimMax ELSE event_dim) :
           event_dim' = {dim}
    /\ ndraws' = ndraws + (IF event_dim = {} THEN 1 ELSE 0)
    /\ remaining_params' = DOMAIN params_event_ndims
    /\ params_to_use' = <<>>
    /\ pc' = "params_select"
    /\ UNCHANGED <<entry, error, shapeVars, supportVars, paramsArgs, perm,
                   param_batch_shapes, requested, params_kwargs, toolVars>>

\* one iteration of "while remaining_params"
SelectParam ==
    /\ pc = "params_select"
    /\ remaining_params # {}
    /\ \E param \in remaining_params :
        /\ params_to_use' = Append(params_to_use, param)
        /\ remaining_params' = RemoveClashing(remaining_params, param, mutex_params)
    /\ ndraws' = ndraws + 1
    /\ UNCHANGED <<entry, pc, error, shapeVars, supportVars, paramsArgs, event_dim,
                   perm, param_batch_shapes, requested, params_kwargs, toolVars>>

\* broadcasting_named_shapes(batch_shape, params_to_use), up to the draw of
\* broadcasting_shapes(batch_shape, n, no_error_n_eq_1=True)
NamedShapesEnter ==
    /\ pc = "params_select"
    /\ remaining_params = {}
    /\ \E q \in PermutationsOf(params_to_use) : perm' = q
    /\ ndraws' = ndraws + 1
    /\ target_shape' = batch_shape
    /\ n' = NamedShapesCount(params_to_use)
    /\ no_error_n_eq_1' = TRUE
    /\ pc' = "shapes_enter"
    /\ UNCHANGED <<entry, error, result, current_shape, supportVars, paramsArgs,
                   event_dim, remaining_params, params_to_use, param_batch_shapes,
                   requested, params_kwargs, toolVars>>

\* broadcasting_named_shapes returns dict(zip(permutation, shapes)); the
\* locals of the two calls that ended are gone
NamedShapesReturn ==
    /\ entry = "broadcasting_params"
    /\ pc = "shapes_return"
    /\ param_batch_shapes' = ZipDict(perm, result)
    /\ perm' = <<>>
    /\ target_shape' = <<>>
    /\ n' = 0
    /\ no_error_n_eq_1' = FALSE
    /\ result' = <<>>
    /\ current_shape' = <<>>
    /\ pc' = IF params_to_use = <<>> THEN "params_return" ELSE "params_loop"
    /\ UNCHANGED <<entry, error, ndraws, supportVars, paramsArgs, event_dim,
                   remaining_params, params_to_use, requested, params_kwargs, toolVars>>

\* one iteration of "for param in params_to_use"
ParamStep ==
    /\ pc = "params_loop"
    /\ LET param == params_to_use[Cardinality(DOMAIN params_kwargs) + 1]
           is_last_param == Cardinality(DOMAIN params_kwargs) + 1 = Len(params_to_use)
           dim == CHOOSE d \in event_dim : TRUE
       IN  IF param \notin DOMAIN param_batch_shapes
           THEN /\ pc' = "error"
                /\ error' = "KeyError"
                /\ UNCHANGED <<ndraws, requested, params_kwargs>>
           ELSE LET param_shape == ParamShape(param_batch_shapes[param], dim,
                                              params_event_ndims[param])
                IN  IF ~WithinRankLimit(param_shape)
                    THEN /\ pc' = "discard"
                         /\ UNCHANGED <<error, ndraws, requested, params_kwargs>>
                    ELSE /\ requested' = requested @@ (param :> param_shape)
                         /\ IF ~DtypeSupported(dtype)
                            THEN /\ pc' = "error"
                                 /\ error' = "NotImplementedError"
                                 /\ UNCHANGED <<ndraws, params_kwargs>>
                            ELSE \E mv \in maybe_variable(enable_vars, dtype) :
                                 /\ ndraws' = ndraws + mv.draws
                                 /\ IF mv.raised # "none"
                                    THEN /\ pc' = "error"
                                         /\ error' = mv.raised
                                         /\ UNCHANGED params_kwargs
                                    ELSE /\ params_kwargs' = params_kwargs @@
                                             (param :> [shape |-> param_shape,
                                                        kind |-> mv.kind,
                                                        alt_value |-> mv.alt_value,
                                                        value_draws |-> mv.value_draws])
                                         /\ pc' = IF is_last_param
                                                  THEN "params_return" ELSE "params_loop"
                                         /\ UNCHANGED error
    /\ UNCHANGED <<entry, shapeVars, supportVars, paramsArgs, event_dim,
                   remaining_params, params_to_use, perm, param_batch_shapes, toolVars>>

\* a call broadcasting_params(batch_shape, params_event_ndims, event_dim,
\* enable_vars, mutex_params=mutex_params, dtype=dtype) about to be drawn
InitParams ==
    /\ entry = "broadcasting_params"
    /\ pc = "params_enter"
    /\ error = "none"
    /\ ndraws = 0
    /\ ShapesIdle
    /\ SupportIdle
    /\ batch_shape \in BatchShapeInputs
    /\ params_event_ndims \in ParamsEventNdimsInputs
    /\ mutex_params \in MutexInputs
    /\ event_dim \in {{}, {3}}
    /\ event_dim_given = (event_dim # {})
    /\ enable_vars \in BOOLEAN
    /\ dtype \in Dtypes
    /\ remaining_params = {}
    /\ params_to_use = <<>>
    /\ perm = <<>>
    /\ param_batch_shapes = EmptyDict
    /\ requested = EmptyDict
    /\ params_kwargs = EmptyDict
    /\ ToolsIdle

NextParams ==
    \/ ParamsEnter
    \/ SelectParam
    \/ NamedShapesEnter
    \/ BroadcastingShapesEnter
    \/ BroadcastingShapesIterate
    \/ NamedShapesReturn
    \/ ParamStep

SpecParams == InitParams /\ [][NextParams]_vars

----------------------------------------------------------------------------
(* valid_slices and stringify_slices.  A selector is a record: kind says    *)
(* what it is, index holds the value of an integer, start, stop and step    *)
(* hold the fields of a slice; a field that is None is the empty set.       *)

\* largest rank of the batch_shape given to valid_slices
MaxSliceRank == 2
\* hps.lists(..., max_size=3)
MaxNewaxis == 3

\* the axis sizes of the batch shapes explored: an empty axis, which has no
\* index, and an axis with more than one
SliceDims == {0, 2}

\* the batch shapes of the calls explored
SliceShapeInputs == UNION {[1..r -> SliceDims] : r \in 0..MaxSliceRank}

\* the tuples explored of hps.tuples(...) before the filter of the step: each
\* field is None or an integer of -100..100
SliceTuples ==
    {<<{}, {}, {}>>, <<{0}, {}, {}>>, <<{}, {0}, {-100}>>, <<{-100}, {100}, {1}>>,
     <<{}, {}, {0}>>, <<{1}, {0}, {0}>>}

Selector(kind, index, start, stop, step) ==
    [kind |-> kind, index |-> index, start |-> start, stop |-> stop, step |-> step]

IntSel(i) == Selector("int", {i}, {}, {}, {})

Ellipsis == Selector("Ellipsis", {}, {}, {}, {})

\* tf.newaxis, which is None
newaxis == Selector("newaxis", {}, {}, {}, {})

\* faulty variant of StepFilter: the filter is missing
StepFilterNone(field) == TRUE

\* hps.one_of(hps.just(None), hps.integers(...).filter(lambda x: x != 0)):
\* whether the strategy of the step can give the field
StepFilter(field) == \A x \in field : x # 0

\* hps.tuples(...).map(lambda tup: slice(*tup))
arbitrary_slices ==
    {Selector("slice", {}, tup[1], tup[2], tup[3]) :
        tup \in {t \in SliceTuples : StepFilter(t[3])}}

\* what a draw gives where Hypothesis rejects the strategy: integers(0, -1)
\* has max_value < min_value, which raises InvalidArgument when it is drawn
InvalidStrategy == {Selector("InvalidArgument", {}, {}, {}, {})}

\* the values of draw(hps.one_of(hps.integers(min_value=0,
\* max_value=batch_shape[i] - 1), arbitrary_slices))
SelectorDraws(dim) ==
    IF dim - 1 < 0
    THEN InvalidStrategy
    ELSE {IntSel(i) : i \in 0..(dim - 1)} \cup arbitrary_slices

\* max_value of nslc_after_ellipsis
NslcAfterMax(batch_rank, before) == batch_rank - before

\* faulty variant of RemainStart: the ellipsis does not move the axes
RemainStartNoEllipsis(ellipsis, batch_rank, before, after) == before

\* remain_start: the 0-based axis of the first selector after the ellipsis
RemainStart(ellipsis, batch_rank, before, after) ==
    IF ellipsis THEN batch_rank - after ELSE before

\* faulty variant of NewaxisPositions: one more position may be drawn
NewaxisPositionsOneMore(len) ==
    UNION {[1..k -> 0..len] : k \in 0..(MaxNewaxis + 1)}

\* the values of draw(hps.lists(hps.integers(min_value=0,
\* max_value=len(slices)), max_size=3))
NewaxisPositions(len) ==
    UNION {[1..k -> 0..len] : k \in 0..MaxNewaxis}

\* sorted(positions, reverse=True)
SortedReverse(positions) ==
    CHOOSE q \in [1..Len(positions) -> {positions[i] : i \in 1..Len(positions)}] :
        /\ \A i \in 1..(Len(q) - 1) : q[i] >= q[i + 1]
        /\ \A v \in {positions[i] : i \in 1..Len(positions)} :
               Cardinality({i \in 1..Len(q) : q[i] = v})
                   = Cardinality({i \in 1..Len(positions) : positions[i] = v})

\* list.insert(i, x), for 0 <= i <= len(list)
Insert(xs, i, x) == SubSeq(xs, 1, i) \o <<x>> \o SubSeq(xs, i + 1, Len(xs))

\* for i in sorted(newaxis_positions, reverse=True): slices.insert(i, tf.newaxis)
RECURSIVE InsertNewaxes(_, _)
InsertNewaxes(xs, positions) ==
    IF positions = <<>> THEN xs
    ELSE InsertNewaxes(Insert(xs, Head(positions), newaxis), Tail(positions))

\* number of selectors appended after step 2 of valid_slices
SlicesAfterEllipsis ==
    Len(slices) - nslc_before_ellipsis - (IF has_ellipsis THEN 1 ELSE 0)

\* entry of valid_slices, up to the first loop
ValidSlicesEnter ==
    /\ pc = "slices_enter"
    /\ slices' = <<>>
    /\ \E k \in 0..Len(batch_shape) : nslc_before_ellipsis' = k
    /\ ndraws' = ndraws + 1
    /\ pc' = "slices_before"
    /\ UNCHANGED <<entry, error, shapeVars, supportVars, paramsVars, guardVars, usageVars,
                   nslc_after_ellipsis, has_ellipsis, single_item, pretty_slices>>

\* one iteration of "for i in range(nslc_before_ellipsis)"
SliceBeforeEllipsis ==
    /\ pc = "slices_before"
    /\ Len(slices) < nslc_before_ellipsis
    /\ \E slc \in SelectorDraws(batch_shape[Len(slices) + 1]) :
           IF slc \in InvalidStrategy
           THEN /\ pc' = "error"
                /\ error' = "InvalidArgument"
                /\ UNCHANGED <<slices, ndraws>>
           ELSE /\ slices' = Append(slices, slc)
                /\ ndraws' = ndraws + 1
                /\ UNCHANGED <<pc, error>>
    /\ UNCHANGED <<entry, shapeVars, supportVars, paramsVars, guardVars, usageVars, nslc_before_ellipsis,
                   nslc_after_ellipsis, has_ellipsis, single_item, pretty_slices>>

\* step 2 of valid_slices: has_ellipsis, nslc_after_ellipsis, the ellipsis
ChooseEllipsis ==
    /\ pc = "slices_before"
    /\ Len(slices) = nslc_before_ellipsis
    /\ \E b \in BOOLEAN,
          k \in 0..NslcAfterMax(Len(batch_shape), nslc_before_ellipsis) :
        /\ has_ellipsis' = b
        /\ nslc_after_ellipsis' = k
        /\ slices' = IF b THEN Append(slices, Ellipsis) ELSE slices
    /\ ndraws' = ndraws + 2
    /\ pc' = "slices_after"
    /\ UNCHANGED <<entry, error, shapeVars, supportVars, paramsVars, guardVars, usageVars,
                   nslc_before_ellipsis, single_item, pretty_slices>>

\* one iteration of "for i in range(remain_start, remain_end)"
SliceAfterEllipsis ==
    /\ pc = "slices_after"
    /\ SlicesAfterEllipsis < nslc_after_ellipsis
    /\ LET i == RemainStart(has_ellipsis, Len(batch_shape), nslc_before_ellipsis,
                            nslc_after_ellipsis) + SlicesAfterEllipsis
       IN  \E slc \in SelectorDraws(batch_shape[i + 1]) :
           IF slc \in InvalidStrategy
           THEN /\ pc' = "error"
                /\ error' = "InvalidArgument"
                /\ UNCHANGED <<slices, ndraws>>
           ELSE /\ slices' = Append(slices, slc)
                /\ ndraws' = ndraws + 1
                /\ UNCHANGED <<pc, error>>
    /\ UNCHANGED <<entry, shapeVars, supportVars, paramsVars, guardVars, usageVars, nslc_before_ellipsis,
                   nslc_after_ellipsis, has_ellipsis, single_item, pretty_slices>>

\* step 4 of valid_slices and its return: the tuple, or its only item
InsertNewaxis ==
    /\ pc = "slices_after"
    /\ SlicesAfterEllipsis = nslc_after_ellipsis
    /\ \E newaxis_positions \in NewaxisPositions(Len(slices)) :
       LET built == InsertNewaxes(slices, SortedReverse(newaxis_positions))
       IN  /\ slices' = built
           /\ \E b \in (IF Len(built) = 1 THEN BOOLEAN ELSE {FALSE}) :
                  single_item' = b
           /\ ndraws' = ndraws + 1 + (IF Len(built) = 1 THEN 1 ELSE 0)
    /\ pc' = "slices_return"
    /\ UNCHANGED <<entry, error, shapeVars, supportVars, paramsVars, guardVars, usageVars,
                   nslc_before_ellipsis, nslc_after_ellipsis, has_ellipsis,
                   pretty_slices>>

\* longest tuple handed to stringify_slices directly
MaxStringifyLen == 2

\* selectors of kinds that valid_slices never builds: a tensor, a string and
\* a list
TensorSel == Selector("tensor", {}, {}, {}, {})

OtherSelectors == {Selector(k, {}, {}, {}, {}) : k \in {"str", "list"}}

\* the selectors of the direct calls explored
StringifySelectors ==
    {IntSel(i) : i \in {-3, 0, 12}} \cup arbitrary_slices
        \cup {Ellipsis, newaxis, TensorSel} \cup OtherSelectors

\* the result of "slc == Ellipsis": for a tensor it is TensorFlow's ==, which
\* is identity (False) or an elementwise comparison that cannot convert
\* Ellipsis and raises, depending on the TensorFlow behaviour in force
EqualsEllipsis(slc) ==
    IF slc.kind = "tensor" THEN {"False", "raises"}
    ELSE IF slc.kind = "Ellipsis" THEN {"True"} ELSE {"False"}

\* faulty variant of FormatField: a field that is 0 is dropped like None
FormatFieldFalsy(field) ==
    IF field = {} \/ field = {0} THEN "" ELSE ToString(CHOOSE v \in field : TRUE)

\* '' if s is None else s, as '{}'.format renders it
FormatField(field) ==
    IF field = {} THEN "" ELSE ToString(CHOOSE v \in field : TRUE)

\* str(slc) of an integer; of a tensor, a text that is none of the others
Str(slc) ==
    IF slc.kind = "int" THEN ToString(CHOOSE v \in slc.index : TRUE) ELSE "<tf.Tensor>"

\* one iteration of "for slc in slices" of stringify_slices, given the result
\* of "slc == Ellipsis": the string appended, or the exception raised
Pretty(slc, eq) ==
    IF eq = "raises" THEN [raised |-> "TypeError", text |-> ""]
    ELSE IF eq = "True" THEN [raised |-> "none", text |-> "..."]
    ELSE IF slc.kind = "slice"
         THEN [raised |-> "none",
               text |-> FormatField(slc.start) \o ":" \o FormatField(slc.stop)
                            \o ":" \o FormatField(slc.step)]
    ELSE IF slc.kind \in {"int", "tensor"} THEN [raised |-> "none", text |-> Str(slc)]
    ELSE IF slc.kind = "newaxis" THEN [raised |-> "none", text |-> "tf.newaxis"]
    ELSE [raised |-> "ValueError", text |-> ""]

\* the items whose comparison with Ellipsis has more than one outcome
Undetermined(xs) == {i \in 1..Len(xs) : Cardinality(EqualsEllipsis(xs[i])) > 1}

\* stringify_slices(slices) of the expression at hand: the tuple, or the one
\* item that "slices if isinstance(slices, tuple) else (slices,)" wraps again
StringifySlices ==
    /\ pc \in {"slices_return", "stringify_enter"}
    /\ \E eqs \in [Undetermined(slices) -> {"False", "raises"}] :
        LET outs == [i \in 1..Len(slices) |->
                        Pretty(slices[i],
                               IF i \in Undetermined(slices) THEN eqs[i]
                               ELSE CHOOSE e \in EqualsEllipsis(slices[i]) : TRUE)]
            failed == {i \in 1..Len(slices) : outs[i].raised # "none"}
            first == CHOOSE i \in failed : \A j \in failed : i <= j
        IN  IF failed = {}
            THEN /\ pretty_slices' = [i \in 1..Len(slices) |-> outs[i].text]
                 /\ pc' = "stringify_return"
                 /\ UNCHANGED error
            ELSE /\ pretty_slices' = [i \in 1..(first - 1) |-> outs[i].text]
                 /\ pc' = "error"
                 /\ error' = outs[first].raised
    /\ UNCHANGED <<entry, ndraws, shapeVars, supportVars, paramsVars, guardVars, usageVars, slices,
                   nslc_before_ellipsis, nslc_after_ellipsis, has_ellipsis, single_item>>

\* a call valid_slices(batch_shape) about to be drawn, or a call
\* stringify_slices(slices) about to be made on an expression built by hand
InitSlices ==
    /\ error = "none"
    /\ ndraws = 0
    /\ ShapesIdle
    /\ SupportIdle
    /\ params_event_ndims = EmptyDict
    /\ mutex_params = {}
    /\ event_dim = {}
    /\ event_dim_given = FALSE
    /\ enable_vars = FALSE
    /\ dtype = "float32"
    /\ remaining_params = {}
    /\ params_to_use = <<>>
    /\ perm = <<>>
    /\ param_batch_shapes = EmptyDict
    /\ requested = EmptyDict
    /\ params_kwargs = EmptyDict
    /\ nslc_before_ellipsis = 0
    /\ nslc_after_ellipsis = 0
    /\ has_ellipsis = FALSE
    /\ pretty_slices = <<>>
    /\ GuardIdle
    /\ UsageIdle
    /\ \/ /\ entry = "valid_slices"
          /\ pc = "slices_enter"
          /\ batch_shape \in SliceShapeInputs
          /\ slices = <<>>
          /\ single_item = FALSE
       \/ /\ entry = "stringify_slices"
          /\ pc = "stringify_enter"
          /\ batch_shape = <<>>
          /\ slices \in UNION {[1..k -> StringifySelectors] : k \in 0..MaxStringifyLen}
          /\ single_item \in (IF Len(slices) = 1 THEN BOOLEAN ELSE {FALSE})

NextSlices ==
    \/ ValidSlicesEnter
    \/ SliceBeforeEllipsis
    \/ ChooseEllipsis
    \/ SliceAfterEllipsis
    \/ InsertNewaxis
    \/ StringifySlices

SpecSlices == InitSlices /\ [][NextSlices]_vars

----------------------------------------------------------------------------
(* The scoped guards no_tf_rank_errors, no_cholesky_decomposition_errors    *)
(* and finite_ground_truth_only.  The text of an exception's message is     *)
(* modelled by the set of the patterns that re.search (or "in") finds in    *)
(* it; a pattern is named by the variable that holds it in the source.      *)

\* the three context managers
Guards ==
    {"no_tf_rank_errors", "no_cholesky_decomposition_errors", "finite_ground_truth_only"}

\* the patterns of no_tf_rank_errors
RankPatterns ==
    {"pat_1", "pat_2", "input_dims_pat", "input_rank_pat", "is_not_implemented_pat",
     "does_not_work_pat", "only_support_pat"}

\* pat of no_cholesky_decomposition_errors and pat of finite_ground_truth_only
CholeskyPat == "cholesky pat"
FiniteGroundTruthPat == "finite ground truth pat"

Patterns == RankPatterns \cup {CholeskyPat, FiniteGroundTruthPat}

\* the messages explored: a text that matches no pattern, one or two
Messages == {m \in SUBSET Patterns : Cardinality(m) <= 2}

\* the exceptions the body of the with-block raises: the three types the
\* guards name, and one that no guard names
ExcTypes == {"UnimplementedError", "InvalidArgumentError", "ValueError", "RuntimeError"}

\* re.search(pat, msg), and "pat in msg"
Search(pat, msg) == pat \in msg

\* faulty variant of RankErrorAssumedAway: the type of the exception is not
\* looked at
RankErrorAnyType(type, msg) == \E pat \in RankPatterns : Search(pat, msg)

\* the except clauses of no_tf_rank_errors: whether hp.assume(False) is reached
RankErrorAssumedAway(type, msg) ==
    IF type = "UnimplementedError"
    THEN IF Search("pat_1", msg) \/ Search("pat_2", msg) THEN TRUE
         ELSE IF Search("input_dims_pat", msg) THEN TRUE
         ELSE IF Search("input_rank_pat", msg) THEN TRUE
         ELSE IF Search("is_not_implemented_pat", msg) THEN TRUE
         ELSE FALSE
    ELSE IF type = "InvalidArgumentError"
    THEN Search("only_support_pat", msg)
    ELSE IF type = "ValueError"
    THEN Search("does_not_work_pat", msg)
    ELSE FALSE

\* the except clause of no_cholesky_decomposition_errors
CholeskyErrorAssumedAway(type, msg) ==
    IF type = "InvalidArgumentError" THEN Search(CholeskyPat, msg) ELSE FALSE

\* the except clause of finite_ground_truth_only
GroundTruthErrorAssumedAway(type, msg) ==
    IF type = "InvalidArgumentError" THEN Search(FiniteGroundTruthPat, msg) ELSE FALSE

\* "with guard():" is entered: the body of the context manager runs to its yield
GuardEnter ==
    /\ pc = "idle"
    /\ \E g \in Guards :
        /\ guard' = g
        /\ entry' = g
    /\ pc' = "in_scope"
    /\ UNCHANGED <<error, ndraws, shapeVars, supportVars, paramsVars, slicesVars,
                   exc_type, exc_msg, usageVars>>

\* the with-block ends without an exception: the generator resumes after the
\* yield and ends
ScopeCompletes ==
    /\ pc = "in_scope"
    /\ pc' = "scope_done"
    /\ UNCHANGED <<entry, error, ndraws, shapeVars, supportVars, paramsVars, toolVars>>

\* the with-block raises: the exception is thrown into the generator at the yield
ScopeRaises ==
    /\ pc = "in_scope"
    /\ \E type \in ExcTypes, msg \in Messages :
        /\ exc_type' = type
        /\ exc_msg' = msg
    /\ pc' = "raised"
    /\ UNCHANGED <<entry, error, ndraws, shapeVars, supportVars, paramsVars, slicesVars,
                   guard, usageVars>>

\* hp.assume(False), or "raise" of the exception at hand
AssumeAwayOrReraise(assumed_away) ==
    IF assumed_away
    THEN /\ pc' = "discard"
         /\ UNCHANGED error
    ELSE /\ pc' = "error"
         /\ error' = exc_type

\* the try statement of no_tf_rank_errors
NoTfRankErrors ==
    /\ pc = "raised"
    /\ guard = "no_tf_rank_errors"
    /\ AssumeAwayOrReraise(RankErrorAssumedAway(exc_type, exc_msg))
    /\ UNCHANGED <<entry, ndraws, shapeVars, supportVars, paramsVars, toolVars>>

\* the try statement of no_cholesky_decomposition_errors
NoCholeskyDecompositionErrors ==
    /\ pc = "raised"
    /\ guard = "no_cholesky_decomposition_errors"
    /\ AssumeAwayOrReraise(CholeskyErrorAssumedAway(exc_type, exc_msg))
    /\ UNCHANGED <<entry, ndraws, shapeVars, supportVars, paramsVars, toolVars>>

\* the try statement of finite_ground_truth_only
FiniteGroundTruthOnly ==
    /\ pc = "raised"
    /\ guard = "finite_ground_truth_only"
    /\ AssumeAwayOrReraise(GroundTruthErrorAssumedAway(exc_type, exc_msg))
    /\ UNCHANGED <<entry, ndraws, shapeVars, supportVars, paramsVars, toolVars>>

\* a test about to open the with-block of a guard
InitGuards ==
    /\ entry = "none"
    /\ pc = "idle"
    /\ error = "none"
    /\ ndraws = 0
    /\ ShapesIdle
    /\ SupportIdle
    /\ ParamsIdle
    /\ ToolsIdle

NextGuards ==
    \/ GuardEnter
    \/ ScopeCompletes
    \/ ScopeRaises
    \/ NoTfRankErrors
    \/ NoCholeskyDecompositionErrors
    \/ FiniteGroundTruthOnly

SpecGuards == InitGuards /\ [][NextGuards]_vars

----------------------------------------------------------------------------
(* VAR_USAGES, usage_counting_identity and assert_no_excessive_var_usage.   *)
(* A key (id(var), var.name) is modelled by a name; the list of stack       *)
(* traces kept for a key is modelled by its length.  Each open block also   *)
(* records the conversions made since it was entered, and each block that   *)
(* ended normally is kept in exited with what it recorded.                  *)

\* most conversions of one variable counted in a table or a block
MaxUsages == 3
\* most assert_no_excessive_var_usage blocks entered in one run
MaxScopes == 2

\* the instrumented variables of the runs explored
UsageKeys == {"v", "w"}

\* the max_permissible of the blocks explored; 2 is the default
MaxPermissibleInputs == {1, 2}

\* VAR_USAGES.get(key, []), as a length
UsagesOf(table, key) == IF key \in DOMAIN table THEN table[key] ELSE 0

\* VAR_USAGES[key] = VAR_USAGES.get(key, []) + [traceback.format_stack(limit=25)]
AddUsage(table, key) ==
    [k \in DOMAIN table \cup {key} |->
        IF k = key THEN UsagesOf(table, key) + 1 ELSE table[k]]

\* any(len(usages) > max_permissible for usages in VAR_USAGES.values())
Excessive(table, max_permissible) ==
    \E k \in DOMAIN table : table[k] > max_permissible

\* VAR_USAGES.clear()
Cleared(table) == EmptyDict

\* usage_counting_identity(var): a tagged DeferredTensor is converted
UsageCountingIdentity ==
    /\ pc = "running"
    /\ \E key \in UsageKeys :
        /\ UsagesOf(VAR_USAGES, key) < MaxUsages
        /\ \A i \in 1..Len(scopes) : UsagesOf(scopes[i].conversions, key) < MaxUsages
        /\ VAR_USAGES' = AddUsage(VAR_USAGES, key)
        /\ scopes' = [i \in 1..Len(scopes) |->
                         [scopes[i] EXCEPT !.conversions = AddUsage(@, key)]]
    /\ UNCHANGED <<entry, pc, error, ndraws, shapeVars, supportVars, paramsVars,
                   slicesVars, guardVars, exited>>

\* "with assert_no_excessive_var_usage(name, max_permissible):" is entered
AssertNoExcessiveVarUsageEnter ==
    /\ pc = "running"
    /\ Len(scopes) + Len(exited) < MaxScopes
    /\ \E max_permissible \in MaxPermissibleInputs :
        scopes' = Append(scopes, [max_permissible |-> max_permissible,
                                  conversions |-> EmptyDict])
    /\ VAR_USAGES' = Cleared(VAR_USAGES)
    /\ UNCHANGED <<entry, pc, error, ndraws, shapeVars, supportVars, paramsVars,
                   slicesVars, guardVars, exited>>

\* the innermost with-block ends normally: the generator resumes after its
\* yield; the AssertionError it raises ends the enclosing with-blocks too
AssertNoExcessiveVarUsageExit ==
    /\ pc = "running"
    /\ scopes # <<>>
    /\ LET top == scopes[Len(scopes)]
           raises == Excessive(VAR_USAGES, top.max_permissible)
       IN  /\ exited' = Append(exited, [max_permissible |-> top.max_permissible,
                                        conversions |-> top.conversions,
                                        raised |-> raises])
           /\ IF raises
              THEN /\ pc' = "error"
                   /\ error' = "AssertionError"
                   /\ scopes' = <<>>
              ELSE /\ scopes' = SubSeq(scopes, 1, Len(scopes) - 1)
                   /\ UNCHANGED <<pc, error>>
    /\ UNCHANGED <<entry, ndraws, shapeVars, supportVars, paramsVars, slicesVars,
                   guardVars, VAR_USAGES>>

\* the innermost with-block raises: the exception is thrown into each open
\* generator at its yield, and none of them runs its check
WrappedBlockRaises ==
    /\ pc = "running"
    /\ scopes # <<>>
    /\ pc' = "error"
    /\ error' = "Exception"
    /\ scopes' = <<>>
    /\ UNCHANGED <<entry, ndraws, shapeVars, supportVars, paramsVars, slicesVars,
                   guardVars, VAR_USAGES, exited>>

\* the module is loaded (VAR_USAGES = {}) and a test starts
InitUsage ==
    /\ entry = "assert_no_excessive_var_usage"
    /\ pc = "running"
    /\ error = "none"
    /\ ndraws = 0
    /\ ShapesIdle
    /\ SupportIdle
    /\ ParamsIdle
    /\ ToolsIdle

NextUsage ==
    \/ UsageCountingIdentity
    \/ AssertNoExcessiveVarUsageEnter
    \/ AssertNoExcessiveVarUsageExit
    \/ WrappedBlockRaises

SpecUsage == InitUsage /\ [][NextUsage]_vars

----------------------------------------------------------------------------
(* Broadcasting of a set of shapes, as the claims state it: axes are aligned *)
(* from the trailing end and a missing leading axis counts as 1              *)

\* the size of the j-th axis from the end of s (j = 1 is the last axis)
TrailingDim(s, j) == IF j <= Len(s) THEN s[Len(s) - j + 1] ELSE 1

MaxRankOf(shps) ==
    IF Len(shps) = 0 THEN 0
    ELSE CHOOSE r \in {Len(shps[k]) : k \in 1..Len(shps)} :
             \A k \in 1..Len(shps) : Len(shps[k]) <= r

MutuallyCompatible(shps) ==
    \A j \in 1..MaxRankOf(shps) : \A a, b \in 1..Len(shps) :
        \/ TrailingDim(shps[a], j) = 1
        \/ TrailingDim(shps[b], j) = 1
        \/ TrailingDim(shps[a], j) = TrailingDim(shps[b], j)

JointBroadcast(shps) ==
    LET R == MaxRankOf(shps)
    IN  [i \in 1..R |->
            LET sizes == {TrailingDim(shps[k], R - i + 1) : k \in 1..Len(shps)} \ {1}
            IN  IF sizes = {} THEN 1 ELSE CHOOSE d \in sizes : TRUE]

----------------------------------------------------------------------------
(* Claims about broadcasting_shapes, checked under SpecShapes *)

\* C1: for n >= 2, the shapes returned by broadcasting_shapes are mutually
\* broadcast-compatible and their joint broadcast equals target_shape exactly.
C1_BroadcastClosure ==
    (entry = "broadcasting_shapes" /\ pc = "shapes_return" /\ n >= 2) =>
        /\ MutuallyCompatible(result)
        /\ JointBroadcast(result) = target_shape

\* three shapes were returned for a rank-2 target without axes of size 1, the
\* first of lower rank, the last with a broadcasting axis of its own
C1_Witness ==
    /\ entry = "broadcasting_shapes" /\ pc = "shapes_return" /\ n = 3
    /\ Len(target_shape) = 2 /\ target_shape[1] > 1 /\ target_shape[2] > 1
    /\ Len(result[1]) < 2
    /\ Len(result[3]) = 2 /\ result[3][1] = 1

\* C2: every shape in the sequence built by broadcasting_shapes, final or
\* non-final, has rank between 0 and len(target_shape) inclusive.
C2_RankBounds ==
    entry = "broadcasting_shapes" =>
        \A k \in 1..Len(result) :
            Len(result[k]) >= 0 /\ Len(result[k]) <= Len(target_shape)

\* a returned sequence holds a shape of rank 0 and a shape of the full rank 2
C2_Witness ==
    /\ entry = "broadcasting_shapes" /\ pc = "shapes_return"
    /\ Len(target_shape) = 2
    /\ \E k \in 1..Len(result) : Len(result[k]) = 0
    /\ \E k \in 1..Len(result) : Len(result[k]) = 2

\* C3: n = 1 without no_error_n_eq_1 ends in ValueError before any draw and
\* never in a discard; with the flag set, or with n >= 2, no error is raised.
C3_NEq1Rejected ==
    entry = "broadcasting_shapes" =>
        /\ (n = 1 /\ ~no_error_n_eq_1 /\ pc # "shapes_enter") =>
               (pc = "error" /\ error = "ValueError" /\ ndraws = 0 /\ result = <<>>)
        /\ (no_error_n_eq_1 \/ n >= 2) =>
               (error = "none" /\ pc \notin {"error", "discard"})
        /\ pc # "discard"

\* the call with n = 1 and no flag has been rejected
C3_Witness ==
    /\ entry = "broadcasting_shapes" /\ pc = "error" /\ error = "ValueError"
    /\ n = 1 /\ ~no_error_n_eq_1

----------------------------------------------------------------------------
(* Claims about the Support catalog, checked under SpecSupport *)

\* a direct call of one of the two lookups has ended
LookupEnded == entry \in {"constrainer", "min_rank_for_support"} /\ pc # "idle"

\* the string starts with one of 'SCALAR_', 'VECTOR_', 'MATRIX_'
HasFamilyPrefix(s) == Len(s) >= 2 /\ s[1] \in {"SCALAR", "VECTOR", "MATRIX"}

\* the string is a key of the table of the family its prefix names
InFamilyTable(s) ==
    /\ HasFamilyPrefix(s)
    /\ s \in (IF s[1] = "SCALAR" THEN DOMAIN ScalarConstrainers
              ELSE IF s[1] = "VECTOR" THEN DOMAIN VectorConstrainers
              ELSE DOMAIN MatrixConstrainers)

FamilyRank(s) == IF s[1] = "SCALAR" THEN 0 ELSE IF s[1] = "VECTOR" THEN 1 ELSE 2

LookupSucceeded ==
    /\ pc = "return" /\ error = "none"
    /\ entry = "constrainer" => ret_transform \notin {"none", RaisesNotImplemented}
    /\ entry = "min_rank_for_support" => ret_rank \in {0, 1, 2}

LookupFailed == pc = "error" /\ error = "NotImplementedError"

\* C9 as stated: every tag collected in ALL_SUPPORTS maps to a constraining
\* transform via constrainer and to a minimum rank in {0, 1, 2} via
\* min_rank_for_support, and neither lookup fails for a catalog tag.
C9_EveryTagMaps ==
    (LookupEnded /\ support \in ALL_SUPPORTS) => LookupSucceeded

\* C9 as amended: of the 17 tags collected in ALL_SUPPORTS, the 15 that start
\* with SCALAR_, VECTOR_ or MATRIX_ map to a constraining transform and to a
\* minimum rank in {0, 1, 2}; for CORRELATION_CHOLESKY and OTHER both lookups
\* raise NotImplementedError.
C9_PrefixedTagsMap ==
    /\ Cardinality(ALL_SUPPORTS) = 17
    /\ (LookupEnded /\ support \in ALL_SUPPORTS) =>
           IF support \in {CORRELATION_CHOLESKY, OTHER_SUPPORT}
           THEN LookupFailed
           ELSE HasFamilyPrefix(support) /\ LookupSucceeded

\* constrainer(Support.SCALAR_GT_NEG1) has returned its transform
C9_Witness ==
    /\ entry = "constrainer" /\ pc = "return"
    /\ support = SCALAR_GT_NEG1
    /\ ret_transform = "softplus_plus_eps(-1 + 1e-6)"

\* C10 as stated: constrainer and min_rank_for_support both fail when the
\* string has none of the three prefixes and also when it has one but is absent
\* from that family's table; otherwise min_rank_for_support returns 0, 1 or 2
\* for SCALAR_, VECTOR_, MATRIX_ (VECTOR_STRICTLY_INCREASING gives 1).
C10_BothFailOffTable ==
    LookupEnded =>
        IF ~InFamilyTable(support)
        THEN LookupFailed
        ELSE /\ LookupSucceeded
             /\ entry = "min_rank_for_support" => ret_rank = FamilyRank(support)

\* C10 as amended: constrainer fails in both cases; min_rank_for_support fails
\* only when the string has none of the three prefixes, and returns 0, 1 or 2
\* by the prefix alone, whether or not the string is in the family's table.
C10_RankByPrefixAlone ==
    LookupEnded =>
        /\ entry = "constrainer" =>
               IF ~InFamilyTable(support) THEN LookupFailed ELSE LookupSucceeded
        /\ entry = "min_rank_for_support" =>
               IF ~HasFamilyPrefix(support)
               THEN LookupFailed
               ELSE LookupSucceeded /\ ret_rank = FamilyRank(support)
        /\ (entry = "min_rank_for_support" /\ support = VECTOR_STRICTLY_INCREASING)
               => ret_rank = 1

\* min_rank_for_support('SCALAR_BOGUS') has returned 0
C10_Witness ==
    /\ entry = "min_rank_for_support" /\ pc = "return"
    /\ support = <<"SCALAR", "BOGUS">> /\ ret_rank = 0

----------------------------------------------------------------------------
(* Claims about broadcasting_params, checked under SpecParams *)

Range(xs) == {xs[i] : i \in 1..Len(xs)}

\* the selection loop of broadcasting_params has ended
SelectionEnded ==
    /\ entry = "broadcasting_params"
    /\ pc \notin {"params_enter", "params_select"} \/ (pc = "params_select" /\ remaining_params = {})

\* broadcasting_named_shapes has returned and param_batch_shapes is assigned
ShapesAssigned ==
    /\ entry = "broadcasting_params"
    /\ pc \in {"params_loop", "params_return", "discard", "error"}

\* the batch shapes assigned, in the order of params_to_use
AssignedShapes ==
    [i \in 1..Len(params_to_use) |-> param_batch_shapes[params_to_use[i]]]

\* batch rank plus event rank of a selected parameter
TotalRank(name) == Len(param_batch_shapes[name]) + params_event_ndims[name]

\* C4: the dictionary returned by broadcasting_params never contains two
\* distinct names of one mutex group, also when groups overlap.
C4_MutexExclusive ==
    (entry = "broadcasting_params" /\ pc = "params_return") =>
        \A mutex_set \in mutex_params :
            \A x, y \in DOMAIN params_kwargs :
                (x \in mutex_set /\ y \in mutex_set) => x = y

\* with the overlapping groups {a, b} and {b, c}, a and c were both returned
C4_Witness ==
    /\ entry = "broadcasting_params" /\ pc = "params_return"
    /\ mutex_params = {{"a", "b"}, {"b", "c"}}
    /\ DOMAIN params_kwargs = {"a", "c"}

\* C5: the selection is maximal: once the loop has ended, every name of
\* params_event_ndims that was not selected shares a mutex group with a
\* selected name; the returned dict holds every selected name, and with names
\* {a, b} and mutex_params [{a, b}] it holds exactly one of a and b.
C5_SelectionMaximal ==
    /\ SelectionEnded =>
           \A name \in (DOMAIN params_event_ndims) \ Range(params_to_use) :
               \E mutex_set \in mutex_params : \E chosen \in Range(params_to_use) :
                   name \in mutex_set /\ chosen \in mutex_set
    /\ (entry = "broadcasting_params" /\ pc = "params_return") =>
           /\ DOMAIN params_kwargs = Range(params_to_use)
           /\ (DOMAIN params_event_ndims = {"a", "b"} /\ mutex_params = {{"a", "b"}}) =>
                  DOMAIN params_kwargs \in {{"a"}, {"b"}}

\* with a mutex group holding a and a name that is no parameter, and the group
\* {b, c}, the selection kept a and one of b and c
C5_Witness ==
    /\ entry = "broadcasting_params" /\ pc = "params_return"
    /\ DOMAIN params_event_ndims = {"a", "b", "c"}
    /\ mutex_params = {{"a", ForeignName}, {"b", "c"}}
    /\ DOMAIN params_kwargs = {"a", "b"}

C7_EventAxesAppended ==
    entry = "broadcasting_params" =>
        /\ (pc # "params_enter" /\ ~event_dim_given) =>
               event_dim \subseteq EventDimMin..EventDimMax
        /\ pc # "params_enter" => Cardinality(event_dim) = 1
        /\ \A name \in DOMAIN requested :
               LET shape == requested[name]
                   batch == param_batch_shapes[name]
               IN  /\ Len(shape) = Len(batch) + params_event_ndims[name]
                   /\ \A i \in 1..Len(batch) : shape[i] = batch[i]
                   /\ \A i \in (Len(batch) + 1)..Len(shape) : shape[i] \in event_dim
        /\ \A name \in DOMAIN params_kwargs :
               name \in DOMAIN requested /\ params_kwargs[name].shape = requested[name]

\* with event_dim omitted, b was asked with one batch axis and one event axis
\* and c with five event axes after a scalar batch shape
C7_Witness ==
    /\ entry = "broadcasting_params" /\ pc = "params_return"
    /\ ~event_dim_given
    /\ batch_shape = <<2>>
    /\ {"b", "c"} \subseteq DOMAIN requested
    /\ Len(requested["b"]) = 2 /\ requested["b"][1] = 2
    /\ Len(requested["c"]) = 5

\* the position in params_to_use of the parameter the loop stopped at
StoppedAt == Cardinality(DOMAIN params_kwargs) + 1

\* C8 as stated: a draw in which some selected parameter's total rank exceeds
\* 5 ends in a discard, never in an error or a returned dictionary.
C8_OversizeAlwaysDiscards ==
    (ShapesAssigned /\ pc \in {"params_return", "error"}) =>
        \A name \in Range(params_to_use) : TotalRank(name) <= 5

\* C8 as amended: such a draw never returns a dictionary; it ends in a discard
\* when the loop reaches the first parameter of total rank above 5, unless the
\* sampling of a parameter processed before it raised an error, which
\* propagates; every parameter of a returned dictionary has total rank <= 5.
C8_OversizeNeverReturned ==
    /\ (ShapesAssigned /\ pc = "params_return") =>
           /\ \A name \in Range(params_to_use) : TotalRank(name) <= 5
           /\ \A name \in DOMAIN params_kwargs : Len(params_kwargs[name].shape) <= 5
    /\ (ShapesAssigned /\ pc = "discard") =>
           /\ TotalRank(params_to_use[StoppedAt]) > 5
           /\ \A i \in 1..(StoppedAt - 1) : TotalRank(params_to_use[i]) <= 5
    /\ (ShapesAssigned /\ pc = "error") =>
           /\ error \in {"NotImplementedError", "AssertionError"}
           /\ \A i \in 1..StoppedAt : TotalRank(params_to_use[i]) <= 5
    /\ (ShapesAssigned /\ pc = "params_loop") =>
           \A i \in 1..(StoppedAt - 1) : TotalRank(params_to_use[i]) <= 5

\* a draw was discarded at a parameter of total rank 6 after another
\* parameter had been sampled
C8_Witness ==
    /\ ShapesAssigned /\ pc = "discard"
    /\ StoppedAt >= 2
    /\ TotalRank(params_to_use[StoppedAt]) = 6

----------------------------------------------------------------------------
(* Claims about valid_slices and stringify_slices, checked under SpecSlices *)

\* number of selectors of the given kinds in an expression
CountKind(xs, kinds) == Cardinality({i \in 1..Len(xs) : xs[i].kind \in kinds})

\* valid_slices has returned the expression held in slices and single_item
SlicesReturned == entry = "valid_slices" /\ pc = "slices_return"

\* C11: the expression valid_slices returns holds at most one ellipsis, at
\* most 3 newaxis markers and at most rank(batch_shape) other selectors, each
\* an integer or a slice; it is a bare selector only if it has one element
C11_SliceStructure ==
    SlicesReturned =>
        /\ CountKind(slices, {"Ellipsis"}) <= 1
        /\ CountKind(slices, {"newaxis"}) <= 3
        /\ CountKind(slices, {"int", "slice"}) <= Len(batch_shape)
        /\ \A i \in 1..Len(slices) :
               slices[i].kind \in {"Ellipsis", "newaxis", "int", "slice"}
        /\ single_item => Len(slices) = 1

\* an expression with the ellipsis, three newaxis markers and a selector for
\* every axis of a shape of rank 2
C11_Witness ==
    /\ SlicesReturned
    /\ Len(batch_shape) = 2
    /\ CountKind(slices, {"Ellipsis"}) = 1
    /\ CountKind(slices, {"newaxis"}) = 3
    /\ CountKind(slices, {"int", "slice"}) = 2

\* C12 as stated: valid_slices never raises, whatever the shape, axes of size
\* 0 included
C12_NoFailureMode == entry = "valid_slices" => pc # "error"

\* the selectors of an expression that address an axis or are the ellipsis
IsNotNewaxis(slc) == slc.kind # "newaxis"

\* the 1-based axis that item j of ys addresses, ys being an expression
\* without its newaxis markers: the items after an ellipsis address the
\* trailing axes
AddressedAxis(ys, j, batch_rank) ==
    IF \E p \in 1..(j - 1) : ys[p].kind = "Ellipsis"
    THEN batch_rank - (Len(ys) - j)
    ELSE j

\* C13: in an expression valid_slices returns, an integer selector is an
\* index of the axis it addresses and a slice selector has no step of 0
C13_SelectorsInBounds ==
    SlicesReturned =>
        LET ys == SelectSeq(slices, IsNotNewaxis)
        IN  \A j \in 1..Len(ys) :
                /\ ys[j].kind = "int" =>
                       LET k == AddressedAxis(ys, j, Len(batch_shape))
                       IN  /\ k \in 1..Len(batch_shape)
                           /\ \A i \in ys[j].index : 0 <= i /\ i < batch_shape[k]
                /\ ys[j].kind = "slice" => ys[j].step # {0}
                /\ ys[j].kind \in {"int", "slice", "Ellipsis"}

\* a newaxis marker, a slice with a step, the ellipsis and the last index of
\* the last axis, in this order
C13_Witness ==
    /\ SlicesReturned
    /\ Len(batch_shape) = 2
    /\ Len(slices) = 4
    /\ slices[1].kind = "newaxis"
    /\ slices[2].kind = "slice" /\ slices[2].step # {}
    /\ slices[3].kind = "Ellipsis"
    /\ slices[4].kind = "int" /\ slices[4].index = {batch_shape[2] - 1}

\* stringify_slices has returned pretty_slices
Stringified == pc = "stringify_return"

\* stringify_slices has raised
StringifyFailed == pc = "error" /\ error \in {"ValueError", "TypeError"}

\* a field of a slice as the claim words it: empty when unset
FieldText(field) == IF field = {} THEN "" ELSE ToString(CHOOSE v \in field : TRUE)

\* the string the claim gives for a selector of one of its four kinds
ClaimedText(slc) ==
    CASE slc.kind = "int" -> ToString(CHOOSE v \in slc.index : TRUE)
      [] slc.kind = "slice" ->
            FieldText(slc.start) \o ":" \o FieldText(slc.stop) \o ":" \o FieldText(slc.step)
      [] slc.kind = "newaxis" -> "tf.newaxis"
      [] slc.kind = "Ellipsis" -> "..."
      [] OTHER -> "<tf.Tensor>"

\* the four kinds of selector the claim names
ClaimedKinds == {"int", "slice", "newaxis", "Ellipsis"}

\* C14 as stated: one string per selector for the four kinds, and failure for
\* a selector of any other kind
C14_OnlyFourKinds ==
    /\ Stringified =>
           /\ Len(pretty_slices) = Len(slices)
           /\ \A i \in 1..Len(slices) :
                  slices[i].kind \in ClaimedKinds /\ pretty_slices[i] = ClaimedText(slices[i])
    /\ StringifyFailed => \E i \in 1..Len(slices) : slices[i].kind \notin ClaimedKinds
    /\ entry = "valid_slices" => ~StringifyFailed

\* C14: stringify_slices returns one string per selector, in order, of the
\* form claimed for an integer, a slice, newaxis and the ellipsis, and str()
\* of a tensor; it raises ValueError exactly for a selector of another kind,
\* and otherwise fails only where comparing a tensor with Ellipsis raises;
\* what valid_slices returns is always stringified
C14_StringPerSelector ==
    /\ Stringified =>
           /\ Len(pretty_slices) = Len(slices)
           /\ \A i \in 1..Len(slices) :
                  /\ slices[i].kind \in ClaimedKinds \cup {"tensor"}
                  /\ pretty_slices[i] = ClaimedText(slices[i])
    /\ StringifyFailed =>
           /\ error = "ValueError" =>
                  \E i \in 1..Len(slices) : slices[i].kind \notin ClaimedKinds \cup {"tensor"}
           /\ error = "TypeError" => \E i \in 1..Len(slices) : slices[i].kind = "tensor"
    /\ entry = "valid_slices" => ~StringifyFailed

\* an expression of valid_slices with a slice whose start is 0 and a newaxis
\* marker, stringified
C14_Witness ==
    /\ entry = "valid_slices"
    /\ Stringified
    /\ \E i \in 1..Len(slices) :
           slices[i].kind = "slice" /\ slices[i].start = {0} /\ pretty_slices[i] = "0::"
    /\ \E i \in 1..Len(slices) : pretty_slices[i] = "tf.newaxis"

----------------------------------------------------------------------------
(* Claims about the scoped guards, checked under SpecGuards *)

\* the patterns each guard defines
Designated(g) ==
    IF g = "no_tf_rank_errors" THEN RankPatterns
    ELSE IF g = "no_cholesky_decomposition_errors" THEN {CholeskyPat}
    ELSE {FiniteGroundTruthPat}

\* the patterns each guard looks for in an exception of a given type
PairedWith(g, type) ==
    IF g = "no_tf_rank_errors"
    THEN IF type = "UnimplementedError"
         THEN {"pat_1", "pat_2", "input_dims_pat", "input_rank_pat", "is_not_implemented_pat"}
         ELSE IF type = "InvalidArgumentError" THEN {"only_support_pat"}
         ELSE IF type = "ValueError" THEN {"does_not_work_pat"}
         ELSE {}
    ELSE IF type = "InvalidArgumentError" THEN Designated(g) ELSE {}

\* the with-block has ended and the guard has dealt with what it raised
GuardEnded == guard # "none" /\ pc \in {"scope_done", "discard", "error"}

\* C15 as stated: a failure whose message matches a pattern of the guard is
\* turned into a discard, any other failure is raised again unchanged, and a
\* block that ends normally gives neither
C15_MatchByTextAlone ==
    GuardEnded =>
        /\ exc_type = "none" => pc = "scope_done"
        /\ exc_type # "none" /\ exc_msg \cap Designated(guard) # {} => pc = "discard"
        /\ exc_type # "none" /\ exc_msg \cap Designated(guard) = {} =>
               pc = "error" /\ error = exc_type

\* C15: a failure of a type the guard catches whose message matches a pattern
\* the guard pairs with that type is turned into a discard, any other failure
\* is raised again unchanged, and a block that ends normally gives neither
C15_MatchByTypeAndText ==
    GuardEnded =>
        /\ exc_type = "none" => pc = "scope_done"
        /\ exc_type # "none" /\ exc_msg \cap PairedWith(guard, exc_type) # {} =>
               pc = "discard"
        /\ exc_type # "none" /\ exc_msg \cap PairedWith(guard, exc_type) = {} =>
               pc = "error" /\ error = exc_type

\* no_tf_rank_errors has turned into a discard an InvalidArgumentError whose
\* text matches the pattern paired with that type and one paired with another
C15_Witness ==
    /\ guard = "no_tf_rank_errors"
    /\ pc = "discard"
    /\ exc_type = "InvalidArgumentError"
    /\ exc_msg = {"only_support_pat", "pat_1"}

----------------------------------------------------------------------------
(* Claims about the usage counting, checked under SpecUsage *)

\* C16 as stated: the table holds nothing from before the entry of the
\* innermost open block, and a block that ends normally raises AssertionError
\* exactly if a variable was converted more than max_permissible times in it
C16_CountsInsideBlock ==
    /\ scopes # <<>> =>
           \A k \in DOMAIN VAR_USAGES :
               VAR_USAGES[k] <= UsagesOf(scopes[Len(scopes)].conversions, k)
    /\ \A i \in 1..Len(exited) :
           exited[i].raised <=>
               \E k \in DOMAIN exited[i].conversions :
                   exited[i].conversions[k] > exited[i].max_permissible

----------------------------------------------------------------------------
(* A claim about maybe_variable, checked under SpecParams *)

\* C17: without enable_vars every parameter is a plain tensor made from one
\* draw of its strategy; with enable_vars it is a plain tensor, a variable or
\* a usage-counting handle, and the last two come with an alternate value
\* from a second draw of the same strategy
C17_VariableVariants ==
    \A name \in DOMAIN params_kwargs :
        LET param == params_kwargs[name]
        IN  /\ ~enable_vars =>
                   param.kind = "tensor" /\ param.value_draws = 1 /\ ~param.alt_value
            /\ enable_vars =>
                   /\ param.kind \in {"tensor", "variable", "deferred"}
                   /\ param.kind = "tensor" => param.value_draws = 1 /\ ~param.alt_value
                   /\ param.kind \in {"variable", "deferred"} =>
                          param.alt_value /\ param.value_draws = 2

\* a call with enable_vars has returned a tensor, a variable and a handle
C17_Witness ==
    /\ enable_vars
    /\ pc = "params_return"
    /\ {params_kwargs[name].kind : name \in DOMAIN params_kwargs}
           = {"tensor", "variable", "deferred"}

----------------------------------------------------------------------------
(* Further claims about broadcasting_shapes *)

\* C18 as stated: whenever broadcasting_shapes returns, for n >= 0, it returns
\* exactly n shapes
C18_ExactlyNShapes ==
    (entry = "broadcasting_shapes" /\ pc = "shapes_return") => Len(result) = n

\* C19: with no_error_n_eq_1, broadcasting_shapes(target_shape, 1) returns
\* the one-element sequence [target_shape]
C19_SingleShapeIsTarget ==
    (entry = "broadcasting_shapes" /\ pc = "shapes_return" /\ n = 1 /\ no_error_n_eq_1)
        => result = <<target_shape>>

\* the one shape of a target with an axis of size 1 and an axis of another
\* size was returned, after the boolean of the axis of size 1 was drawn
C19_Witness ==
    /\ entry = "broadcasting_shapes" /\ pc = "shapes_return"
    /\ n = 1 /\ no_error_n_eq_1
    /\ target_shape = <<1, 2>>
    /\ result = <<target_shape>>
    /\ ndraws = 2

\* the shapes of rank <= len(target) whose axes are 1 or the target's axis
Admissible(target) ==
    UNION {{s \in [1..r -> {1} \cup {target[i] : i \in 1..Len(target)}] :
               \A j \in 1..r : TrailingDim(s, j) \in {1, TrailingDim(target, j)}} :
           r \in 0..Len(target)}

\* the shapes that the draws of one iteration can give
Offered(target, current, is_last) ==
    UNION {{NextShape(target, rf[1], rf[2], ones) : ones \in [1..rf[1] -> BOOLEAN]} :
              rf \in compute_rank_and_fullsize_reqd(target, current, is_last)}

\* C20: for n >= 2, at every iteration each admissible shape can be drawn if
\* the iteration is not the last, and each admissible shape that completes
\* the joint broadcast to target_shape can be drawn if it is the last; so
\* every valid sequence of n shapes is built by some sequence of draws
C20_EveryValidShapeOffered ==
    (entry = "broadcasting_shapes" /\ pc = "shapes_loop" /\ n >= 2) =>
        LET is_last == IsLastList(n)[Len(result) + 1]
        IN  {s \in Admissible(target_shape) :
                ~is_last \/ JointBroadcast(Append(result, s)) = target_shape}
                \subseteq Offered(target_shape, current_shape, is_last)

\* the last iteration is reached with every axis of a rank-2 target matched,
\* where each of the seven admissible shapes, of any rank and with 1 on any
\* axis, is a valid last shape
C20_Witness ==
    /\ entry = "broadcasting_shapes" /\ pc = "shapes_loop" /\ n = 3
    /\ Len(result) = 2
    /\ target_shape = <<2, 2>>
    /\ current_shape = target_shape
    /\ Cardinality({s \in Admissible(target_shape) :
                        JointBroadcast(Append(result, s)) = target_shape}) = 7

====
